---- MODULE Spec2Model ----
(***************************************************************************)
(* poppler-rs: the safe wrapper of src/lib.rs around the native PDF engine *)
(* (PopplerDocument, PopplerPage, PagesIter).                              *)
(*                                                                         *)
(* The wrapper's code is modelled from src/lib.rs.  The native engine and  *)
(* the helpers of the modules ffi and util (declared in lib.rs, lines      *)
(* 10-11) are modelled from their documented contract.  The target is a    *)
(* 64-bit one: usize has 64 bits and c_int has 32.                         *)
(***************************************************************************)
EXTENDS Integers, Sequences, FiniteSets, TLC

(* ------------------------------ bounds --------------------------------- *)
MaxDocs == 1
MaxPages == 2
MaxPageObjs == 2
MaxCursors == 2
MaxStrings == 1
MaxPwLen == 2
MaxDataLen == 1

(* ------------------------- machine integers ---------------------------- *)
\* A usize is kept as its four 16-bit limbs, most significant first, so that
\* all 64 bits are there and no intermediate value leaves TLC's integers.
Limb == 2^16
HalfLimb == 2^15

\* a small natural number as a usize
usize_of(k) == <<0, 0, k \div Limb, k % Limb>>

usize_zero == <<0, 0, 0, 0>>

usize_max == <<Limb - 1, Limb - 1, Limb - 1, Limb - 1>>

\* a <= b, where the code compares with <
usize_lt_or_eq(a, b) ==
    \/ a = b
    \/ a[1] < b[1]
    \/ a[1] = b[1] /\ a[2] < b[2]
    \/ a[1] = b[1] /\ a[2] = b[2] /\ a[3] < b[3]
    \/ a[1] = b[1] /\ a[2] = b[2] /\ a[3] = b[3] /\ a[4] < b[4]

\* a < b on usize
usize_lt(a, b) ==
    \/ a[1] < b[1]
    \/ a[1] = b[1] /\ a[2] < b[2]
    \/ a[1] = b[1] /\ a[2] = b[2] /\ a[3] < b[3]
    \/ a[1] = b[1] /\ a[2] = b[2] /\ a[3] = b[3] /\ a[4] < b[4]

usize_le(a, b) == a = b \/ usize_lt(a, b)

\* a += 1 on usize.  The one caller adds only below `total`, so the sum
\* never passes usize::MAX; the wrapping result is written for completeness.
usize_add1(a) ==
    IF a[4] < Limb - 1 THEN <<a[1], a[2], a[3], a[4] + 1>>
    ELSE IF a[3] < Limb - 1 THEN <<a[1], a[2], a[3] + 1, 0>>
    ELSE IF a[2] < Limb - 1 THEN <<a[1], a[2] + 1, 0, 0>>
    ELSE IF a[1] < Limb - 1 THEN <<a[1] + 1, 0, 0, 0>>
    ELSE usize_zero

\* `index as c_int`: the low 32 bits, read as a two's complement number
usize_as_c_int(u) ==
    IF u[3] < HalfLimb THEN u[3] * Limb + u[4]
    ELSE (u[3] - Limb) * Limb + u[4]

\* `n as usize` for a c_int n: sign extension to 64 bits
c_int_as_usize(n) ==
    IF n >= 0 THEN <<0, 0, n \div Limb, n % Limb>>
    ELSE LET m == n + HalfLimb * Limb     \* n + 2^31, in 0 .. 2^31 - 1
         IN  <<Limb - 1, Limb - 1, (m \div Limb) + HalfLimb, m % Limb>>

(* ------------------------------- text ---------------------------------- *)
\* String::from_utf8 / CStr::to_str accept exactly the well-formed UTF-8
\* byte sequences.
IsCont(b) == b >= 128 /\ b <= 191

RECURSIVE IsUtf8(_)
IsUtf8(bs) ==
    IF bs = <<>> THEN TRUE
    ELSE LET b == Head(bs)
             n == Len(bs)
         IN  IF b < 128 THEN IsUtf8(Tail(bs))
             ELSE IF b >= 194 /\ b <= 223
                  THEN n >= 2 /\ IsCont(bs[2]) /\ IsUtf8(SubSeq(bs, 3, n))
             ELSE IF b >= 224 /\ b <= 239
                  THEN /\ n >= 3
                       /\ IsCont(bs[2]) /\ IsCont(bs[3])
                       /\ (b = 224 => bs[2] >= 160)
                       /\ (b = 237 => bs[2] <= 159)
                       /\ IsUtf8(SubSeq(bs, 4, n))
             ELSE IF b >= 240 /\ b <= 244
                  THEN /\ n >= 4
                       /\ IsCont(bs[2]) /\ IsCont(bs[3]) /\ IsCont(bs[4])
                       /\ (b = 240 => bs[2] >= 144)
                       /\ (b = 244 => bs[2] <= 143)
                       /\ IsUtf8(SubSeq(bs, 5, n))
             ELSE FALSE

\* CString::new(s) fails exactly when s holds a NUL byte
HasNul(bs) == \E i \in 1 .. Len(bs) : bs[i] = 0

(* ------------------------------ inputs --------------------------------- *)
RECURSIVE SeqsUpTo(_, _)
SeqsUpTo(S, n) ==
    IF n = 0 THEN {<<>>}
    ELSE LET shorter == SeqsUpTo(S, n - 1)
         IN  shorter \cup {Append(s, x) : s \in shorter, x \in S}

\* Option<&str>: None, or a string of the bytes NUL and 'u'
NoPassword == [some |-> FALSE, v |-> <<>>]
Passwords == {NoPassword} \cup {[some |-> TRUE, v |-> s] : s \in SeqsUpTo({0, 117}, MaxPwLen)}

\* &mut [u8]: only the bytes' number matters to the wrapper
Buffers == SeqsUpTo({37}, MaxDataLen)

\* a path the locator conversion accepts, and one it rejects
Paths == {"test.pdf", "bad\\0path"}

\* the indices get_page is called with: around the page count, around the
\* edges of c_int, and past 2^32
Indices ==
    {usize_of(k) : k \in 0 .. MaxPages + 1}
    \cup { <<0, 0, HalfLimb - 1, Limb - 1>>,     \* 2^31 - 1
           <<0, 0, HalfLimb, 0>>,                \* 2^31
           <<0, 0, Limb - 1, Limb - 1>>,         \* 2^32 - 1
           <<0, 1, 0, 0>>,                       \* 2^32
           <<0, 1, 0, 1>>,                       \* 2^32 + 1
           usize_max }

\* the texts the native engine hands out: ASCII, a two-byte character, and
\* a byte sequence that is not UTF-8
NativeTexts == {<<80, 68, 70>>, <<195, 169>>, <<195, 40>>}

(* ------------------------------- state --------------------------------- *)
VARIABLES
    rustAlloc,    \* the build: the allocator behind Rust's global allocator
    docObjs,      \* the native document objects, in the order of their creation
    docHandles,   \* the live PopplerDocument values, each by the pointer it wraps
    pageObjs,     \* the native page objects, by address
    pageHandles,  \* the live PopplerPage values, each by the pointer it wraps
    cursors,      \* the PagesIter values
    strs,         \* the strings the native engine allocated, in order
    last,         \* the last call of the public interface and what it returned
    fault         \* a native call was handed an object that was already freed

vars == <<rustAlloc, docObjs, docHandles, pageObjs, pageHandles, cursors, strs, last, fault>>

\* g_malloc is the C library's malloc; Rust's global allocator is the C
\* library's too by default, and anything else under #[global_allocator]
NativeAlloc == "libc"
RustAllocators == {"libc", "custom"}

NoDocObj == [n_pages |-> 0, bad |-> {}, rc |-> 0, unrefs |-> 0]

NoPageObj == [doc |-> 0, index |-> 0, rc |-> 0, unrefs |-> 0]

\* PagesIter { total, index, doc }, and with it what it has done so far:
\* the number of its steps, the pages it yielded before its first None,
\* whether it has returned None, whether it yielded a page after that
NoCursor ==
    [live |-> FALSE, doc |-> 0, total |-> usize_zero, index |-> usize_zero,
     steps |-> 0, yielded |-> <<>>, ended |-> FALSE, resumed |-> FALSE]

\* what `last` holds: the operation, its arguments, the value returned, the
\* native calls it made
Call(op) ==
    [op |-> op, doc |-> 0, page |-> 0, cur |-> 0, index |-> usize_zero,
     pw |-> NoPassword, len |-> 0, path |-> "", res |-> "", ptr |-> 0,
     text |-> <<>>, calls |-> <<>>]

Init ==
    /\ rustAlloc \in RustAllocators
    /\ docObjs = <<>>
    /\ docHandles = {}
    /\ pageObjs = [s \in 1 .. MaxPageObjs |-> NoPageObj]
    /\ pageHandles = {}
    /\ cursors = [c \in 1 .. MaxCursors |-> NoCursor]
    /\ strs = <<>>
    /\ last = Call("none")
    /\ fault = FALSE

(* --------------------------- native engine ----------------------------- *)
\* The outcomes of the native constructors: an error in the error slot, or a
\* new document object holding one reference.  A document has a page count
\* and, fixed once it is open, the pages the engine fails to produce.
NativeOpenOutcomes ==
    {[ok |-> FALSE, n_pages |-> 0, bad |-> {}]}
    \cup (IF Len(docObjs) < MaxDocs
          THEN {[ok |-> TRUE, n_pages |-> n, bad |-> b] :
                    n \in 0 .. MaxPages, b \in SUBSET (0 .. MaxPages - 1)}
          ELSE {})

NativeOpenValid(o) == o.ok => o.bad \subseteq 0 .. o.n_pages - 1

NewDocObj(o) == [n_pages |-> o.n_pages, bad |-> o.bad, rc |-> 1, unrefs |-> 0]

\* poppler_document_get_n_pages
poppler_document_get_n_pages(d) == docObjs[d].n_pages

\* poppler_document_get_page yields a page object for an index in range that
\* the engine can produce, and null otherwise
poppler_document_get_page(d, i) ==
    /\ 0 <= i
    /\ i < docObjs[d].n_pages
    /\ i \notin docObjs[d].bad

\* g_object_unref: one reference less; the object is freed with its last one
g_object_unref(o, freed) ==
    IF o.rc > 1 THEN [o EXCEPT !.rc = o.rc - 1, !.unrefs = o.unrefs + 1]
    ELSE [freed EXCEPT !.unrefs = o.unrefs + 1]

\* the text accessors return null, or a new allocation holding a text
NativeTextOutcomes ==
    {[null |-> TRUE, bytes |-> <<>>]}
    \cup (IF Len(strs) < MaxStrings
          THEN {[null |-> FALSE, bytes |-> t] : t \in NativeTexts}
          ELSE {})

\* util::path_to_glib_url
path_to_glib_url(p) == [ok |-> p = "test.pdf", url |-> p]

(* ------------------------- PopplerDocument ----------------------------- *)
\* a get_password that cuts the password at its first NUL instead of
\* rejecting it
RECURSIVE UpToNul(_)
UpToNul(bs) ==
    IF bs = <<>> \/ Head(bs) = 0 THEN <<>> ELSE <<Head(bs)>> \o UpToNul(Tail(bs))

get_password_unchecked(password) ==
    LET s == IF ~password.some THEN <<>> ELSE password.v
    IN  [ok |-> TRUE, err |-> "", v |-> Append(UpToNul(s), 0)]

\* get_password: CString::new of the password, or of "" for None
get_password(password) ==
    LET s == IF ~password.some THEN <<>> ELSE password.v
    IN  IF HasNul(s) THEN [ok |-> FALSE, err |-> "Inval", v |-> <<>>]
        ELSE [ok |-> TRUE, err |-> "", v |-> Append(s, 0)]

\* util::call_with_gerror around a native constructor, and Ok(PopplerDocument(doc))
call_with_gerror(base, native, o) ==
    /\ NativeOpenValid(o)
    /\ IF o.ok
       THEN /\ docObjs' = Append(docObjs, NewDocObj(o))
            /\ docHandles' = docHandles \cup {Len(docObjs) + 1}
            /\ last' = [base EXCEPT !.res = "Ok", !.ptr = Len(docObjs) + 1,
                                    !.calls = <<native>>]
       ELSE /\ UNCHANGED <<docObjs, docHandles>>
            /\ last' = [base EXCEPT !.res = "Err:native", !.calls = <<native>>]

new_from_file(p, password) ==
    LET base == [Call("new_from_file") EXCEPT !.path = p, !.pw = password]
        pw == get_password(password)
        url == path_to_glib_url(p)
    IN  /\ IF ~pw.ok
           THEN /\ last' = [base EXCEPT !.res = "Err:Inval"]
                /\ UNCHANGED <<docObjs, docHandles>>
           ELSE IF ~url.ok
           THEN /\ last' = [base EXCEPT !.res = "Err:path"]
                /\ UNCHANGED <<docObjs, docHandles>>
           ELSE \E o \in NativeOpenOutcomes :
                    call_with_gerror(base, "poppler_document_new_from_file", o)
        /\ UNCHANGED <<rustAlloc, pageObjs, pageHandles, cursors, strs, fault>>

\* a new_from_data without the test for an empty buffer
new_from_data_unchecked(data, password) ==
    LET base == [Call("new_from_data") EXCEPT !.len = Len(data), !.pw = password]
        pw == get_password(password)
    IN  /\ IF ~pw.ok
           THEN /\ last' = [base EXCEPT !.res = "Err:Inval"]
                /\ UNCHANGED <<docObjs, docHandles>>
           ELSE \E o \in NativeOpenOutcomes :
                    call_with_gerror(base, "poppler_document_new_from_data", o)
        /\ UNCHANGED <<rustAlloc, pageObjs, pageHandles, cursors, strs, fault>>

new_from_data(data, password) ==
    LET base == [Call("new_from_data") EXCEPT !.len = Len(data), !.pw = password]
        pw == get_password(password)
    IN  /\ IF Len(data) = 0
           THEN /\ last' = [base EXCEPT !.res = "Err:Inval"]
                /\ UNCHANGED <<docObjs, docHandles>>
           ELSE IF ~pw.ok
           THEN /\ last' = [base EXCEPT !.res = "Err:Inval"]
                /\ UNCHANGED <<docObjs, docHandles>>
           ELSE \E o \in NativeOpenOutcomes :
                    call_with_gerror(base, "poppler_document_new_from_data", o)
        /\ UNCHANGED <<rustAlloc, pageObjs, pageHandles, cursors, strs, fault>>

\* get_title, get_metadata, get_pdf_version_string: the three bodies are the
\* same but for the native accessor.  A non-null pointer goes to
\* CString::from_raw, which takes the allocation over as one of Rust's global
\* allocator; into_string() hands it on to the String returned, or, when the
\* bytes are not UTF-8, to an error value that .ok() drops on the spot.
owned_text(op, native, d) ==
    /\ d \in docHandles
    /\ fault' = (fault \/ docObjs[d].rc = 0)
    /\ \E o \in NativeTextOutcomes :
          LET base == [Call(op) EXCEPT !.doc = d, !.calls = <<native>>]
          IN  IF o.null
              THEN /\ last' = [base EXCEPT !.res = "None"]
                   /\ UNCHANGED strs
              ELSE IF IsUtf8(o.bytes)
              THEN /\ strs' = Append(strs, [acc |-> op, bytes |-> o.bytes,
                                            owner |-> "String", frees |-> <<>>])
                   /\ last' = [base EXCEPT !.res = "Some", !.text = o.bytes,
                                           !.ptr = Len(strs) + 1]
              ELSE /\ strs' = Append(strs, [acc |-> op, bytes |-> o.bytes,
                                            owner |-> "none", frees |-> <<rustAlloc>>])
                   /\ last' = [base EXCEPT !.res = "None", !.ptr = Len(strs) + 1]
    /\ UNCHANGED <<rustAlloc, docObjs, docHandles, pageObjs, pageHandles, cursors>>

get_title(d) == owned_text("get_title", "poppler_document_get_title", d)

get_metadata(d) == owned_text("get_metadata", "poppler_document_get_metadata", d)

get_pdf_version_string(d) ==
    owned_text("get_pdf_version_string", "poppler_document_get_pdf_version_string", d)

\* the caller drops a String an accessor returned: its buffer goes back to
\* Rust's global allocator
drop_String(s) ==
    /\ s \in 1 .. Len(strs)
    /\ strs[s].owner = "String"
    /\ strs' = [strs EXCEPT ![s].owner = "none",
                            ![s].frees = Append(strs[s].frees, rustAlloc)]
    /\ last' = [Call("drop_String") EXCEPT !.ptr = s]
    /\ UNCHANGED <<rustAlloc, docObjs, docHandles, pageObjs, pageHandles, cursors, fault>>

\* get_n_pages: the native count, cast to usize
get_n_pages(d) == c_int_as_usize(poppler_document_get_n_pages(d))

\* the addresses the native engine can place a new page object at
FreePageSlots == {s \in 1 .. MaxPageObjs : pageObjs[s].rc = 0 /\ s \notin pageHandles}

\* the native lookup of get_page and the match on its result, returning ret:
\* 0 for None, and the pointer the new PopplerPage wraps for Some
page_lookup(d, i, ret) ==
    /\ fault' = (fault \/ docObjs[d].rc = 0)
    /\ IF poppler_document_get_page(d, i)
       THEN /\ FreePageSlots # {}
            /\ ret = CHOOSE s \in FreePageSlots : \A t \in FreePageSlots : s <= t
            /\ pageObjs' = [pageObjs EXCEPT ![ret] =
                               [doc |-> d, index |-> i, rc |-> 1, unrefs |-> 0]]
            /\ pageHandles' = pageHandles \cup {ret}
       ELSE /\ ret = 0
            /\ UNCHANGED <<pageObjs, pageHandles>>

\* a get_page that numbers the pages from one
get_page_from_one(d, index, ret) == page_lookup(d, usize_as_c_int(index) + 1, ret)

\* get_page(index) on the document d: the index goes to the native lookup
\* as a c_int
get_page(d, index, ret) == page_lookup(d, usize_as_c_int(index), ret)

GetPage(d, index) ==
    /\ d \in docHandles
    /\ \E ret \in 0 .. MaxPageObjs :
          /\ get_page(d, index, ret)
          /\ last' = [Call("get_page") EXCEPT
                         !.doc = d, !.index = index, !.ptr = ret,
                         !.res = IF ret = 0 THEN "None" ELSE "Some",
                         !.calls = <<"poppler_document_get_page">>]
    /\ UNCHANGED <<rustAlloc, docObjs, docHandles, cursors, strs>>

\* a pages() whose cursor takes up the position of a cursor that is already
\* over the document
pages_shared_index(d) ==
    /\ d \in docHandles
    /\ \E c \in 1 .. MaxCursors :
          /\ ~cursors[c].live
          /\ \A b \in 1 .. c - 1 : cursors[b].live
          /\ cursors' = [cursors EXCEPT ![c] =
                            [NoCursor EXCEPT
                                !.live = TRUE, !.doc = d,
                                !.total = get_n_pages(d),
                                !.index = IF c > 1 /\ cursors[1].doc = d
                                          THEN cursors[1].index
                                          ELSE usize_zero]]
          /\ last' = [Call("pages") EXCEPT !.doc = d, !.cur = c,
                                          !.calls = <<"poppler_document_get_n_pages">>]
    /\ fault' = (fault \/ docObjs[d].rc = 0)
    /\ UNCHANGED <<rustAlloc, docObjs, docHandles, pageObjs, pageHandles, strs>>

\* pages(): a new PagesIter over the document
pages(d) ==
    /\ d \in docHandles
    /\ \E c \in 1 .. MaxCursors :
          /\ ~cursors[c].live
          /\ \A b \in 1 .. c - 1 : cursors[b].live
          /\ cursors' = [cursors EXCEPT ![c] =
                            [NoCursor EXCEPT !.live = TRUE, !.doc = d,
                                             !.total = get_n_pages(d),
                                             !.index = usize_zero]]
          /\ last' = [Call("pages") EXCEPT !.doc = d, !.cur = c,
                                          !.calls = <<"poppler_document_get_n_pages">>]
    /\ fault' = (fault \/ docObjs[d].rc = 0)
    /\ UNCHANGED <<rustAlloc, docObjs, docHandles, pageObjs, pageHandles, strs>>

\* a PopplerDocument whose drop releases nothing
drop_PopplerDocument_no_unref(d) ==
    /\ d \in docHandles
    /\ \A c \in 1 .. MaxCursors : ~(cursors[c].live /\ cursors[c].doc = d)
    /\ docHandles' = docHandles \ {d}
    /\ last' = [Call("drop_PopplerDocument") EXCEPT !.doc = d]
    /\ UNCHANGED <<rustAlloc, docObjs, pageObjs, pageHandles, cursors, strs, fault>>

\* Drop for PopplerDocument.  A PagesIter borrows its document, so none is
\* alive when the document is dropped.
drop_PopplerDocument(d) ==
    /\ d \in docHandles
    /\ \A c \in 1 .. MaxCursors : ~(cursors[c].live /\ cursors[c].doc = d)
    /\ docHandles' = docHandles \ {d}
    /\ docObjs' = [docObjs EXCEPT ![d] = g_object_unref(docObjs[d], NoDocObj)]
    /\ fault' = (fault \/ docObjs[d].rc = 0)
    /\ last' = [Call("drop_PopplerDocument") EXCEPT !.doc = d,
                                                   !.calls = <<"g_object_unref">>]
    /\ UNCHANGED <<rustAlloc, pageObjs, pageHandles, cursors, strs>>

(* --------------------------- PopplerPage ------------------------------- *)
\* get_text: the native text is borrowed (CStr::from_ptr), decoded with
\* to_str().unwrap_or_default(), and handed out as a &str
get_text(p) ==
    /\ p \in pageHandles
    /\ fault' = (fault \/ pageObjs[p].rc = 0)
    /\ \E o \in NativeTextOutcomes :
          LET base == [Call("get_text") EXCEPT !.page = p,
                                              !.calls = <<"poppler_page_get_text">>]
          IN  IF o.null
              THEN /\ last' = [base EXCEPT !.res = "None"]
                   /\ UNCHANGED strs
              ELSE /\ strs' = Append(strs, [acc |-> "get_text", bytes |-> o.bytes,
                                            owner |-> "none", frees |-> <<>>])
                   /\ last' = [base EXCEPT
                                  !.res = "Some", !.ptr = Len(strs) + 1,
                                  !.text = IF IsUtf8(o.bytes) THEN o.bytes ELSE <<>>]
    /\ UNCHANGED <<rustAlloc, docObjs, docHandles, pageObjs, pageHandles, cursors>>

\* Drop for PopplerPage
drop_PopplerPage(p) ==
    /\ p \in pageHandles
    /\ pageHandles' = pageHandles \ {p}
    /\ pageObjs' = [pageObjs EXCEPT ![p] = g_object_unref(pageObjs[p], NoPageObj)]
    /\ fault' = (fault \/ pageObjs[p].rc = 0)
    /\ last' = [Call("drop_PopplerPage") EXCEPT !.page = p,
                                               !.calls = <<"g_object_unref">>]
    /\ UNCHANGED <<rustAlloc, docObjs, docHandles, cursors, strs>>

(* ---------------------------- PagesIter -------------------------------- *)
\* Iterator::next
PagesIter_next(c) ==
    LET it == cursors[c]
        base == [Call("next") EXCEPT !.cur = c]
        steps == IF it.steps <= MaxPages THEN it.steps + 1 ELSE it.steps
    IN  /\ it.live
        /\ IF usize_lt(it.index, it.total)
           THEN \E ret \in 0 .. MaxPageObjs :
                   /\ get_page(it.doc, it.index, ret)
                   /\ cursors' = [cursors EXCEPT ![c] =
                         [it EXCEPT
                            !.index = usize_add1(it.index),
                            !.steps = steps,
                            !.yielded = IF ret # 0 /\ ~it.ended
                                        THEN Append(it.yielded, [doc |-> pageObjs'[ret].doc,
                                                                index |-> pageObjs'[ret].index])
                                        ELSE it.yielded,
                            !.ended = it.ended \/ ret = 0,
                            !.resumed = it.resumed \/ (it.ended /\ ret # 0)]]
                   /\ last' = [base EXCEPT
                                  !.ptr = ret,
                                  !.res = IF ret = 0 THEN "None" ELSE "Some",
                                  !.calls = <<"poppler_document_get_page">>]
           ELSE /\ cursors' = [cursors EXCEPT ![c] =
                                  [it EXCEPT !.steps = steps, !.ended = TRUE]]
                /\ last' = [base EXCEPT !.res = "None"]
                /\ UNCHANGED <<pageObjs, pageHandles, fault>>
        /\ UNCHANGED <<rustAlloc, docObjs, docHandles, strs>>

\* the caller drops a PagesIter; it owns nothing
drop_PagesIter(c) ==
    /\ cursors[c].live
    /\ cursors' = [cursors EXCEPT ![c] = NoCursor]
    /\ last' = [Call("drop_PagesIter") EXCEPT !.cur = c]
    /\ UNCHANGED <<rustAlloc, docObjs, docHandles, pageObjs, pageHandles, strs, fault>>

(* --------------------------- specifications ---------------------------- *)
\* the two constructors under every path, buffer and password
NextOpen ==
    \/ \E p \in Paths, pw \in Passwords : new_from_file(p, pw)
    \/ \E data \in Buffers, pw \in Passwords : new_from_data(data, pw)
    \/ \E d \in 1 .. MaxDocs : drop_PopplerDocument(d)

SpecOpen == Init /\ [][NextOpen]_vars

\* page lookups under every index
NextLookup ==
    \/ \E data \in Buffers : new_from_data(data, NoPassword)
    \/ \E d \in 1 .. MaxDocs, index \in Indices : GetPage(d, index)
    \/ \E p \in 1 .. MaxPageObjs : drop_PopplerPage(p)
    \/ \E d \in 1 .. MaxDocs : drop_PopplerDocument(d)

SpecLookup == Init /\ [][NextLookup]_vars

\* the text accessors of both handles
NextText ==
    \/ \E data \in Buffers : new_from_data(data, NoPassword)
    \/ \E d \in 1 .. MaxDocs : GetPage(d, usize_zero)
    \/ \E d \in 1 .. MaxDocs : get_title(d)
    \/ \E d \in 1 .. MaxDocs : get_metadata(d)
    \/ \E d \in 1 .. MaxDocs : get_pdf_version_string(d)
    \/ \E p \in 1 .. MaxPageObjs : get_text(p)
    \/ \E s \in 1 .. MaxStrings : drop_String(s)
    \/ \E p \in 1 .. MaxPageObjs : drop_PopplerPage(p)
    \/ \E d \in 1 .. MaxDocs : drop_PopplerDocument(d)

SpecText == Init /\ [][NextText]_vars

\* documents, pages and cursors, created, used and dropped in any order
Next ==
    \/ \E data \in Buffers : new_from_data(data, NoPassword)
    \/ \E d \in 1 .. MaxDocs, k \in 0 .. MaxPages : GetPage(d, usize_of(k))
    \/ \E d \in 1 .. MaxDocs : pages(d)
    \/ \E c \in 1 .. MaxCursors : PagesIter_next(c)
    \/ \E c \in 1 .. MaxCursors : drop_PagesIter(c)
    \/ \E p \in 1 .. MaxPageObjs : drop_PopplerPage(p)
    \/ \E d \in 1 .. MaxDocs : drop_PopplerDocument(d)

Spec == Init /\ [][Next]_vars

(* ------------------------------ properties ---------------------------- *)
TextOps == {"get_title", "get_metadata", "get_pdf_version_string", "get_text"}

OpenOps == {"new_from_file", "new_from_data"}

LiveCursors == {c \in 1 .. MaxCursors : cursors[c].live}

\* the least k at or after `from` and below n that the engine fails to
\* produce for d, or n
RECURSIVE FirstAbsent(_, _, _)
FirstAbsent(d, from, n) ==
    IF from >= n \/ ~poppler_document_get_page(d, from) THEN from
    ELSE FirstAbsent(d, from + 1, n)

\* C1: get_page(index) returns None for every usize index that is not below
\* the page count, the indices that do not fit a c_int among them, and never
\* faults.
C1_OutOfRangeIsNone ==
    (last.op = "get_page" /\ ~usize_lt(last.index, get_n_pages(last.doc)))
        => (last.res = "None" /\ last.ptr = 0 /\ ~fault)

\* C2: every non-null string a text accessor receives from the native engine
\* is released exactly once: it has been released once, or a live owner
\* holds it that releases it when dropped; it is never released twice; and
\* a null pointer gives None and releases nothing.
C2_TextReleasedExactlyOnce ==
    /\ \A s \in 1 .. Len(strs) :
          /\ Len(strs[s].frees) <= 1
          /\ (strs[s].frees = <<>>) <=> (strs[s].owner = "String")
    /\ (last.op \in TextOps /\ last.ptr = 0) => last.res = "None"

\* C3: every release of a native string goes through the allocator that
\* produced it, and the string is released (or still owned by the text
\* returned) whether or not its bytes converted.
C3_ReleasedThroughNativeAllocator ==
    \A s \in 1 .. Len(strs) :
        /\ \A k \in 1 .. Len(strs[s].frees) : strs[s].frees[k] = NativeAlloc
        /\ (strs[s].acc # "get_text" /\ ~IsUtf8(strs[s].bytes))
               => Len(strs[s].frees) = 1

\* C4 as stated: a cursor stepped until it returns None has yielded exactly
\* page count() pages, the k-th being page k of its document.
C4_YieldsPageCount ==
    \A c \in LiveCursors :
        cursors[c].ended =>
            /\ usize_of(Len(cursors[c].yielded)) = get_n_pages(cursors[c].doc)
            /\ \A k \in 1 .. Len(cursors[c].yielded) :
                  cursors[c].yielded[k] = [doc |-> cursors[c].doc, index |-> k - 1]

\* C4 as amended: a cursor stepped until it first returns None has yielded
\* the pages 0 .. m-1 of its document in ascending order, the k-th being the
\* one get_page(k) returns, where m is the least index below page count()
\* at which get_page returns None, or page count() if there is none; so it
\* yields page count() pages exactly when every lookup below page count()
\* succeeds.
C4_YieldsUpToFirstAbsent ==
    \A c \in LiveCursors :
        LET it == cursors[c]
            n == poppler_document_get_n_pages(it.doc)
        IN  /\ \A k \in 1 .. Len(it.yielded) :
                  it.yielded[k] = [doc |-> it.doc, index |-> k - 1]
            /\ Len(it.yielded) <= FirstAbsent(it.doc, 0, n)
            /\ it.ended => Len(it.yielded) = FirstAbsent(it.doc, 0, n)
            /\ (it.ended /\ docObjs[it.doc].bad = {})
                   => usize_of(Len(it.yielded)) = get_n_pages(it.doc)

\* a cursor has gone over a document of MaxPages pages, all of them produced
C4_Witness ==
    \E c \in LiveCursors :
        /\ cursors[c].ended
        /\ Len(cursors[c].yielded) = MaxPages
        /\ get_n_pages(cursors[c].doc) = usize_of(MaxPages)

\* C5: every handle releases its native reference exactly once, at its drop:
\* the object of a live handle holds its one reference and has seen no
\* release, the object of a dropped handle has seen one release and is
\* freed; no native call is handed a freed object; a cursor's document is
\* alive.
C5_OneReleasePerHandle ==
    /\ ~fault
    /\ \A d \in 1 .. Len(docObjs) :
          IF d \in docHandles
          THEN docObjs[d].rc = 1 /\ docObjs[d].unrefs = 0
          ELSE docObjs[d].rc = 0 /\ docObjs[d].unrefs = 1
    /\ \A p \in 1 .. MaxPageObjs :
          IF p \in pageHandles
          THEN pageObjs[p].rc = 1 /\ pageObjs[p].unrefs = 0
          ELSE pageObjs[p].rc = 0 /\ pageObjs[p].unrefs <= 1
    /\ \A c \in LiveCursors : cursors[c].doc \in docHandles

\* a document was dropped while a page of it is alive, and another page of
\* it has been dropped
C5_Witness ==
    /\ \E p \in pageHandles :
          /\ pageObjs[p].doc \notin docHandles
          /\ docObjs[pageObjs[p].doc].unrefs = 1
    /\ \E p \in 1 .. MaxPageObjs : p \notin pageHandles /\ pageObjs[p].unrefs = 1

\* C6: new_from_data with an empty buffer returns the Inval error under
\* every password, makes no native call, and creates no document.
C6_EmptyBufferIsInval ==
    /\ [](last.op = "new_from_data" /\ last.len = 0
            => last.res = "Err:Inval" /\ last.calls = <<>> /\ last.ptr = 0)
    /\ [][last'.op = "new_from_data" /\ last'.len = 0
            => docObjs' = docObjs /\ docHandles' = docHandles]_vars

\* an empty buffer was passed with a password that is itself valid
C6_Witness ==
    /\ last.op = "new_from_data"
    /\ last.len = 0
    /\ last.pw.some
    /\ ~HasNul(last.pw.v)
    /\ Len(last.pw.v) > 0

\* C7: under both constructors a password that holds a NUL gives the Inval
\* error, with no native call made and no document created.
C7_NulPasswordIsInval ==
    /\ [](last.op \in OpenOps /\ last.pw.some /\ HasNul(last.pw.v)
            => last.res = "Err:Inval" /\ last.calls = <<>> /\ last.ptr = 0)
    /\ [][last'.op \in OpenOps /\ last'.pw.some /\ HasNul(last'.pw.v)
            => docObjs' = docObjs /\ docHandles' = docHandles]_vars

\* a good path was opened with a password that has a NUL after a character
C7_Witness ==
    /\ last.op = "new_from_file"
    /\ last.path = "test.pdf"
    /\ last.pw.some
    /\ Len(last.pw.v) > 1
    /\ last.pw.v[1] # 0
    /\ HasNul(last.pw.v)

\* C8: once a cursor has returned None, it never yields a page again.
C8_NoneIsFinal ==
    \A c \in LiveCursors : ~cursors[c].resumed

\* C9: a cursor starts at index 0 with the page count of its document; a
\* step of one cursor leaves every other cursor and every document object
\* as they were; two cursors over one document that have both been stepped
\* until None have yielded the same number of pages.
C9_CursorsIndependent ==
    /\ [](/\ last.op = "pages"
              => /\ cursors[last.cur].index = usize_zero
                 /\ cursors[last.cur].total = get_n_pages(last.doc)
                 /\ cursors[last.cur].doc = last.doc
          /\ \A b, c \in LiveCursors :
                (cursors[b].doc = cursors[c].doc /\ cursors[b].ended /\ cursors[c].ended)
                    => Len(cursors[b].yielded) = Len(cursors[c].yielded))
    /\ [][last'.op \in {"next", "pages"}
            => /\ \A b \in 1 .. MaxCursors : b # last'.cur => cursors'[b] = cursors[b]
               /\ docObjs' = docObjs
               /\ \A k \in 1 .. Len(last'.calls) : last'.calls[k] # "g_object_unref"]_vars

\* two cursors over one document, both stepped until None, each having
\* yielded a page
C9_Witness ==
    \E b, c \in LiveCursors :
        /\ b # c
        /\ cursors[b].doc = cursors[c].doc
        /\ cursors[b].ended /\ cursors[c].ended
        /\ Len(cursors[b].yielded) > 0

\* C10: a cursor's total is the page count of its document and never
\* changes, its index never decreases and stays within 0 .. total, the index
\* is the number of steps taken until it reaches total, and a step at
\* index = total looks no page up and returns None.
C10_CursorBounds ==
    /\ [](\A c \in LiveCursors :
            /\ cursors[c].total = get_n_pages(cursors[c].doc)
            /\ usize_le(cursors[c].index, cursors[c].total)
            /\ \/ cursors[c].index = usize_of(cursors[c].steps)
               \/ /\ cursors[c].index = cursors[c].total
                  /\ usize_lt(cursors[c].total, usize_of(cursors[c].steps)))
    /\ [][\A c \in 1 .. MaxCursors :
            /\ (cursors[c].live /\ cursors'[c].live)
                  => /\ cursors'[c].total = cursors[c].total
                     /\ usize_le(cursors[c].index, cursors'[c].index)
            /\ (last'.op = "next" /\ last'.cur = c
                  /\ cursors[c].index = cursors[c].total)
                  => /\ last'.res = "None"
                     /\ last'.calls = <<>>
                     /\ cursors'[c].index = cursors[c].index
                     /\ pageObjs' = pageObjs /\ pageHandles' = pageHandles]_vars

\* a cursor over MaxPages pages was stepped once more after its last page
C10_Witness ==
    \E c \in LiveCursors :
        /\ cursors[c].total = usize_of(MaxPages)
        /\ cursors[c].index = cursors[c].total
        /\ cursors[c].steps = MaxPages + 1
        /\ last.op = "next" /\ last.cur = c /\ last.res = "None"

====
